---- MODULE Spec2Model ----
(***************************************************************************)
(* Model of the relevant-words research of YoastSEO.js                     *)
(* (src/unnamed/part_000): getRelevantWords and the functions it calls.    *)
(*                                                                         *)
(* A character is a string: a letter, digit or ASCII symbol is itself, any *)
(* other character is named by its code point ("U+2013" is the en dash,    *)
(* "U+0027" the apostrophe).  A word                                       *)
(* is a sequence of characters, a sentence a sequence of raw tokens, a     *)
(* text a sequence of sentences.  A word combination is a record           *)
(*   [words, occurrences, relevantWords]                                   *)
(* where relevantWords says whether setRelevantWords has handed the        *)
(* combination the (single, shared) relevance map of the invocation.       *)
(* Relevance is kept in units of 1/60 so that it stays an integer.         *)
(***************************************************************************)
EXTENDS Integers, Sequences, FiniteSets, TLC

VARIABLES text, locale, pc, functionWords, words, wordCount,
          oneWordCombinations, oneWordRelevanceMap, size, generated,
          multiWordCombinations, combinations, result

vars == <<text, locale, pc, functionWords, words, wordCount,
          oneWordCombinations, oneWordRelevanceMap, size, generated,
          multiWordCombinations, combinations, result>>

-----------------------------------------------------------------------------
(* Bounds of the explored inputs.                                          *)

MaxSentLen == 3
MaxReps == 2
MaxExtra == 2
MaxLead == 8
FillerSpan == 4

(* Program constants.                                                      *)

densityLowerLimit == 0
densityUpperLimit == [num |-> 3, den |-> 100]
relevantWordLimit == 100
wordCountLowerLimit == 200
oneWordLimit == 100
maxCombinationSize == 5

specialCharacters ==
    { <<"U+2013">>, <<"U+2014">>, <<"-">>, <<"U+00A9">>, <<"#">>, <<"%">>,
      <<"/">>, <<"\\">>, <<"$">>, <<"U+20AC">>, <<"U+00A3">>, <<"*">>,
      <<"U+2022">>, <<"|">>, <<"U+2192">>, <<"U+2190">>, <<"}">>, <<"{">>,
      <<"/", "/">>, <<"|", "|">>, <<"U+200B">> }

-----------------------------------------------------------------------------
(* Generic sequence helpers.                                               *)

Min(a, b) == IF a <= b THEN a ELSE b

(* The concatenation of ss[lo], ..., ss[hi], halving the range.            *)
RECURSIVE FlattenRange(_, _, _)
FlattenRange(ss, lo, hi) ==
    IF lo > hi THEN << >>
    ELSE IF lo = hi THEN ss[lo]
    ELSE LET mid == (lo + hi) \div 2
         IN FlattenRange(ss, lo, mid) \o FlattenRange(ss, mid + 1, hi)

Flatten(ss) == FlattenRange(ss, 1, Len(ss))

RECURSIVE Repeat(_, _)
Repeat(s, n) == IF n = 0 THEN << >> ELSE s \o Repeat(s, n - 1)

(* The sequence f with every element evaluated (once).                    *)
AsSequence(f) == SubSeq(f, 1, Len(f))

(* take that keeps one element too many.                                   *)
take_oneMore(s, n) == SubSeq(s, 1, Min(n + 1, Len(s)))

(* lodash take: the first n elements.                                      *)
take(s, n) == SubSeq(s, 1, Min(n, Len(s)))

Digits == <<"0", "1", "2", "3", "4", "5", "6", "7", "8", "9">>

RECURSIVE Decimal(_)
Decimal(i) == IF i < 10 THEN <<Digits[i + 1]>>
              ELSE Decimal(i \div 10) \o <<Digits[(i % 10) + 1]>>

-----------------------------------------------------------------------------
(* The collaborators of the generator.                                     *)

toLocaleLowerCase(ch) ==
    CASE ch = "C" -> "c"
      [] ch = "T" -> "t"
      [] ch = "W" -> "w"
      [] ch = "H" -> "h"
      [] OTHER -> ch

normalizeQuotes(ch) ==
    CASE ch \in {"U+2018", "U+2019", "U+201B", "U+0060"} -> "U+0027"
      [] ch \in {"U+201C", "U+201D", "U+201E", "U+301D", "U+301E", "U+301F",
                 "U+201F"} -> "U+0022"
      [] OTHER -> ch

(* getWords of the lowercased, quote-normalized sentence.                  *)
getWords(sentence) ==
    [i \in 1..Len(sentence) |->
        [j \in 1..Len(sentence[i]) |->
            normalizeQuotes(toLocaleLowerCase(sentence[i][j]))]]

(* getSentences: the text is given as its ordered sentences.               *)
getSentences(t) == t

(* getLanguage: the part of the locale before the underscore.              *)
RECURSIVE getLanguage(_)
getLanguage(loc) ==
    IF loc = << >> \/ Head(loc) = "_" THEN << >>
    ELSE <<Head(loc)>> \o getLanguage(Tail(loc))

-----------------------------------------------------------------------------
(* Words of the model's texts.                                             *)

cat == <<"c", "a", "t">>
Cat == <<"C", "a", "t">>
twelve == <<"1", "2">>
seven == <<"7">>
zeroSeven == <<"0", "7">>
hash == <<"#">>
the == <<"t", "h", "e">>
was == <<"w", "a", "s">>
new == <<"n", "e", "w">>
he == <<"h", "e">>
its == <<"i", "t", "U+2019", "s">>
de == <<"d", "e">>

(* getFunctionWords(): the per-language lists.                              *)
functionWordLists ==
    (<<"e", "n">> :>
        [ all |-> {the, was, new, he},
          filteredAnywhere |-> {he},
          filteredAtBeginning |-> {was},
          filteredAtEnding |-> {new},
          filteredAtBeginningAndEnding |-> {the} ])
    @@
    (<<"n", "l">> :>
        [ all |-> {de, was, he},
          filteredAnywhere |-> {was},
          filteredAtBeginning |-> {he},
          filteredAtEnding |-> {he},
          filteredAtBeginningAndEnding |-> {de} ])

-----------------------------------------------------------------------------
(* WordCombination: the contract the pipeline uses.                        *)

WordCombination(ws, occ) ==
    [words |-> ws, occurrences |-> occ, relevantWords |-> FALSE]

getLength(c) == Len(c.words)

getOccurrences(c) == c.occurrences

incrementOccurrences(c) == [c EXCEPT !.occurrences = @ + 1]

setRelevantWords(c) == [c EXCEPT !.relevantWords = TRUE]

(* The words joined by one space.                                          *)
RECURSIVE join(_)
join(ws) ==
    IF Len(ws) = 0 THEN << >>
    ELSE IF Len(ws) = 1 THEN ws[1]
    ELSE ws[1] \o <<" ">> \o join(Tail(ws))

getCombination(c) == join(c.words)

getDensity(c, count) == [num |-> c.occurrences, den |-> count]

(* Comparison of two non-negative fractions with positive denominators.    *)
Less(p, q) == p.num * q.den < q.num * p.den

lengthBonus(n) ==
    CASE n = 2 -> 3 [] n = 3 -> 7 [] n = 4 -> 12 [] n = 5 -> 18 [] OTHER -> 0

isRelevantWord(c, w) == c.relevantWords /\ w \in DOMAIN oneWordRelevanceMap

(* Relevance in units of 1/60: occurrences times                           *)
(* 1 + (share of relevant words) * lengthBonus; 0 for a single function    *)
(* word.                                                                   *)
getRelevance(c) ==
    LET n == Len(c.words)
        relevantWordCount ==
            Cardinality({i \in 1..n : isRelevantWord(c, c.words[i])})
    IN IF n = 1 /\ c.words[1] \in functionWords.all THEN 0
       ELSE IF n = 1 THEN 60 * c.occurrences
       ELSE c.occurrences *
            (60 + (60 \div n) * relevantWordCount * lengthBonus(n))

-----------------------------------------------------------------------------
(* getWordCombinations                                                     *)

(* Array.prototype.slice( from, to ) for 0 <= from <= to.                  *)
slice(s, from, to) == SubSeq(s, from + 1, Min(to, Len(s)))

(* sentenceCombinations with the bound of the window off by one.           *)
sentenceCombinations_offByOne(sentence, combinationSize) ==
    LET ws == getWords(sentence)
        mapped == [k \in 1..Len(ws) |->
            IF (k - 1) + combinationSize - 1 <= Len(ws)
            THEN [truthy |-> TRUE,
                  value |-> WordCombination(
                      slice(ws, k - 1, (k - 1) + combinationSize), 0)]
            ELSE [truthy |-> FALSE]]
        kept == SelectSeq(mapped, LAMBDA m : m.truthy)
    IN [k \in 1..Len(kept) |-> kept[k].value]

sentenceCombinations(sentence, combinationSize) ==
    LET ws == getWords(sentence)
        mapped == [k \in 1..Len(ws) |->
            \* k - 1 is the zero-based index i of the source
            IF (k - 1) + combinationSize - 1 < Len(ws)
            THEN [truthy |-> TRUE,
                  value |-> WordCombination(
                      slice(ws, k - 1, (k - 1) + combinationSize), 0)]
            ELSE [truthy |-> FALSE]]
        kept == SelectSeq(mapped, LAMBDA m : m.truthy)
    IN [k \in 1..Len(kept) |-> kept[k].value]

getWordCombinations(t, combinationSize) ==
    LET sentences == getSentences(t)
    IN Flatten([s \in 1..Len(sentences) |->
                   sentenceCombinations(sentences[s], combinationSize)])

-----------------------------------------------------------------------------
(* calculateOccurrences.  The occurrences object is the sequence of its    *)
(* properties [key, value] in creation order; values() lists the array-    *)
(* index keys in ascending numeric order, then the others in creation      *)
(* order.                                                                  *)

has(obj, key) == \E i \in 1..Len(obj) : obj[i].key = key

indexOf(obj, key) == CHOOSE i \in 1..Len(obj) : obj[i].key = key

isDigit(ch) == \E d \in 1..10 : Digits[d] = ch

digitValue(ch) == (CHOOSE d \in 1..10 : Digits[d] = ch) - 1

(* Order of two canonical decimal numerals: by length, then digit by digit. *)
RECURSIVE digitsLess(_, _)
digitsLess(a, b) ==
    IF a = << >> \/ b = << >> THEN FALSE
    ELSE IF Head(a) # Head(b) THEN digitValue(Head(a)) < digitValue(Head(b))
    ELSE digitsLess(Tail(a), Tail(b))

indexLess(a, b) == Len(a) < Len(b) \/ (Len(a) = Len(b) /\ digitsLess(a, b))

(* 2^32 - 2, the largest array index.                                      *)
maxArrayIndex == <<"4", "2", "9", "4", "9", "6", "7", "2", "9", "4">>

(* A canonical array index: decimal digits, no leading zero, <= 2^32 - 2.  *)
isArrayIndex(key) ==
    /\ Len(key) >= 1
    /\ \A i \in 1..Len(key) : isDigit(key[i])
    /\ (Len(key) = 1 \/ key[1] # "0")
    /\ ~indexLess(maxArrayIndex, key)

(* The properties ps, whose keys are distinct array indices, in ascending  *)
(* order of their keys.                                                    *)
sortByIndex(ps) ==
    LET rank == AsSequence(
            [i \in 1..Len(ps) |->
                1 + Cardinality({j \in 1..Len(ps) : indexLess(ps[j].key, ps[i].key)})])
    IN [r \in 1..Len(ps) |-> ps[CHOOSE i \in 1..Len(ps) : rank[i] = r]]

ownKeysOrder(obj) ==
    sortByIndex(SelectSeq(obj, LAMBDA p : isArrayIndex(p.key)))
    \o SelectSeq(obj, LAMBDA p : ~isArrayIndex(p.key))

values(obj) ==
    LET ps == ownKeysOrder(obj) IN [i \in 1..Len(ps) |-> ps[i].value]

(* countOne that does not count the first sighting.                        *)
countOne_skipFirst(occurrences, wordCombination) ==
    LET combination == getCombination(wordCombination)
    IN IF ~has(occurrences, combination)
       THEN Append(occurrences, [key |-> combination, value |-> wordCombination])
       ELSE [occurrences EXCEPT ![indexOf(occurrences, combination)].value =
                                    incrementOccurrences(@)]

countOne(occurrences, wordCombination) ==
    LET combination == getCombination(wordCombination)
        stored == IF ~has(occurrences, combination)
                  THEN Append(occurrences,
                              [key |-> combination, value |-> wordCombination])
                  ELSE occurrences
        at == indexOf(stored, combination)
    IN [stored EXCEPT ![at].value = incrementOccurrences(@)]

(* forEach over wordCombinations[lo..hi], left to right (the range is      *)
(* halved to keep the evaluation shallow).                                 *)
RECURSIVE countAll(_, _, _, _)
countAll(occurrences, wordCombinations, lo, hi) ==
    IF lo > hi THEN occurrences
    ELSE IF lo = hi THEN countOne(occurrences, wordCombinations[lo])
    ELSE LET mid == (lo + hi) \div 2
             left == countAll(occurrences, wordCombinations, lo, mid)
         IN \* the test only makes TLC finish the left half first
            IF Len(left) > 0
            THEN countAll(left, wordCombinations, mid + 1, hi)
            ELSE left

calculateOccurrences(wordCombinations) ==
    values(countAll(<< >>, wordCombinations, 1, Len(wordCombinations)))

-----------------------------------------------------------------------------
(* getRelevantCombinations, sortCombinations and the filters.              *)

(* getRelevantCombinations without the test of the occurrences.            *)
getRelevantCombinations_noOccurrences(wordCombinations) ==
    SelectSeq(wordCombinations,
              LAMBDA combination : getRelevance(combination) # 0)

getRelevantCombinations(wordCombinations) ==
    SelectSeq(wordCombinations,
              LAMBDA combination :
                  getOccurrences(combination) # 1 /\ getRelevance(combination) # 0)

(* compareCombinations that puts the shortest first in a tie.              *)
compareCombinations_shortestFirst(a, b) ==
    LET difference == b.relevance - a.relevance
    IN IF difference # 0 THEN difference
       ELSE a.length - b.length

(* The comparator handed to Array.prototype.sort; a and b hold what        *)
(* getRelevance() and getLength() return for combinationA and combinationB.*)
compareCombinations(a, b) ==
    LET difference == b.relevance - a.relevance
    IN IF difference # 0 THEN difference
       ELSE b.length - a.length

(* Array.prototype.sort, a stable sort: an element comes after those the   *)
(* comparator puts before it and after the earlier ones it ties with.      *)
sortCombinations(wordCombinations) ==
    LET n == Len(wordCombinations)
        m == AsSequence([i \in 1..n |->
                 [relevance |-> getRelevance(wordCombinations[i]),
                  length |-> getLength(wordCombinations[i])]])
        before(j, i) == \/ compareCombinations(m[j], m[i]) < 0
                        \/ (compareCombinations(m[j], m[i]) = 0 /\ j < i)
        rank == AsSequence(
                    [i \in 1..n |-> 1 + Cardinality({j \in 1..n : before(j, i)})])
    IN [r \in 1..n |-> wordCombinations[CHOOSE i \in 1..n : rank[i] = r]]

(* filterOneCharacterWordCombinations with < for <=.                       *)
filterOneCharacterWordCombinations_strict(wordCombinations) ==
    SelectSeq(wordCombinations,
              LAMBDA combination :
                  ~(getLength(combination) = 1 /\ Len(combination.words[1]) < 1))

filterOneCharacterWordCombinations(wordCombinations) ==
    SelectSeq(wordCombinations,
              LAMBDA combination :
                  ~(getLength(combination) = 1 /\ Len(combination.words[1]) <= 1))

filterFunctionWordsAnywhere(wordCombinations, fw) ==
    SelectSeq(wordCombinations,
              LAMBDA combination :
                  fw \cap {combination.words[i] : i \in 1..Len(combination.words)} = {})

filterFunctionWordsAtBeginning(wordCombinations, fw) ==
    SelectSeq(wordCombinations,
              LAMBDA combination : ~(combination.words[1] \in fw))

filterFunctionWordsAtEnding(wordCombinations, fw) ==
    SelectSeq(wordCombinations,
              LAMBDA combination :
                  LET lastWordIndex == Len(combination.words)
                  IN ~(combination.words[lastWordIndex] \in fw))

(* filterFunctionWordsAtBeginningAndEnding without its second pass.        *)
filterFunctionWordsAtBeginningAndEnding_onePass(wordCombinations, fw) ==
    filterFunctionWordsAtBeginning(wordCombinations, fw)

filterFunctionWordsAtBeginningAndEnding(wordCombinations, fw) ==
    filterFunctionWordsAtEnding(
        filterFunctionWordsAtBeginning(wordCombinations, fw), fw)

(* filterOnDensity with the upper limit included.                          *)
filterOnDensity_inclusive(wordCombinations, count, lower, upper) ==
    SelectSeq(wordCombinations,
              LAMBDA combination :
                  /\ ~Less(getDensity(combination, count), [num |-> lower, den |-> 1])
                  /\ ~Less(upper, getDensity(combination, count)))

filterOnDensity(wordCombinations, count, lower, upper) ==
    SelectSeq(wordCombinations,
              LAMBDA combination :
                  /\ ~Less(getDensity(combination, count), [num |-> lower, den |-> 1])
                  /\ Less(getDensity(combination, count), upper))

-----------------------------------------------------------------------------
(* The inputs.                                                             *)

Vocabulary == {cat, twelve, seven, hash, the, was}

Sentences == UNION {[1..n -> Vocabulary] : n \in 1..MaxSentLen}

ExtraTexts ==
    << <<<<Cat, cat, twelve, its, new, cat>>, <<cat, twelve, its, new, cat>>>>,
       <<<<he, cat, zeroSeven, seven>>, <<cat, zeroSeven, seven, cat, new>>,
         <<cat, zeroSeven>>>> >>

Texts == {Repeat(<<s>>, r) : s \in Sentences, r \in 1..MaxReps}
         \cup {ExtraTexts[i] : i \in 1..Min(MaxExtra, Len(ExtraTexts))}
         \cup {<< >>}

Locales == { <<"e", "n", "_", "U", "S">>, <<"n", "l", "_", "N", "L">>,
             <<"x", "x">> }

(* Long texts: a leading one-word sentence repeated, then twice the same     *)
(* run of distinct filler words w1, w2, ... cut into sentences of m words.  *)
fillerWord(i) == <<"w">> \o Decimal(i)

fillerSentences(k, m) ==
    [s \in 1..((k + m - 1) \div m) |->
        [j \in 1..Min(m, k - (s - 1) * m) |-> fillerWord((s - 1) * m + j)]]

LongText(lead, p, k, m) ==
    Repeat(<<<<lead>>>>, p) \o fillerSentences(k, m) \o fillerSentences(k, m)

LongTexts ==
    {LongText(lead, p, k, m) :
        lead \in {cat, seven}, p \in 0..MaxLead,
        k \in (relevantWordLimit - FillerSpan)..(relevantWordLimit + FillerSpan),
        m \in 1..2}

undefinedLists ==
    [ all |-> {}, filteredAnywhere |-> {}, filteredAtBeginning |-> {},
      filteredAtEnding |-> {}, filteredAtBeginningAndEnding |-> {} ]

Locals ==
    /\ pc = "start"
    /\ functionWords = undefinedLists
    /\ words = << >>
    /\ wordCount = 0
    /\ oneWordCombinations = << >>
    /\ oneWordRelevanceMap = << >>
    /\ size = 1
    /\ generated = << >>
    /\ multiWordCombinations = [n \in 2..maxCombinationSize |-> << >>]
    /\ combinations = << >>
    /\ result = << >>

Init ==
    /\ text \in Texts
    /\ locale \in Locales
    /\ Locals

-----------------------------------------------------------------------------
(* getRelevantWords, statement by statement.                               *)

\* lines 234-239
ResolveLanguage ==
    /\ pc = "start"
    /\ LET language == getLanguage(locale)
       IN functionWords' =
              IF language \in DOMAIN functionWordLists
              THEN functionWordLists[language]
              ELSE functionWordLists[<<"e", "n">>]
    /\ pc' = "generateWords"
    /\ UNCHANGED <<text, locale, words, wordCount, oneWordCombinations,
                   oneWordRelevanceMap, size, generated,
                   multiWordCombinations, combinations, result>>

\* lines 241-242
GenerateWords ==
    /\ pc = "generateWords"
    /\ words' = getWordCombinations(text, 1)
    /\ wordCount' = Len(words')
    /\ pc' = "aggregateWords"
    /\ UNCHANGED <<text, locale, functionWords, oneWordCombinations,
                   oneWordRelevanceMap, size, generated,
                   multiWordCombinations, combinations, result>>

\* line 245
AggregateWords ==
    /\ pc = "aggregateWords"
    /\ oneWordCombinations' = calculateOccurrences(words)
    /\ pc' = "relevantWords"
    /\ UNCHANGED <<text, locale, functionWords, words, wordCount,
                   oneWordRelevanceMap, size, generated,
                   multiWordCombinations, combinations, result>>

\* lines 244-246
RelevantWords ==
    /\ pc = "relevantWords"
    /\ oneWordCombinations' = getRelevantCombinations(oneWordCombinations)
    /\ pc' = "sortWords"
    /\ UNCHANGED <<text, locale, functionWords, words, wordCount,
                   oneWordRelevanceMap, size, generated,
                   multiWordCombinations, combinations, result>>

\* line 248
SortWords ==
    /\ pc = "sortWords"
    /\ oneWordCombinations' = sortCombinations(oneWordCombinations)
    /\ pc' = "takeWords"
    /\ UNCHANGED <<text, locale, functionWords, words, wordCount,
                   oneWordRelevanceMap, size, generated,
                   multiWordCombinations, combinations, result>>

\* line 249
TakeWords ==
    /\ pc = "takeWords"
    /\ oneWordCombinations' = take(oneWordCombinations, oneWordLimit)
    /\ pc' = "buildMap"
    /\ UNCHANGED <<text, locale, functionWords, words, wordCount,
                   oneWordRelevanceMap, size, generated,
                   multiWordCombinations, combinations, result>>

(* The object the forEach of lines 253-255 leaves: a later assignment to   *)
(* a key overwrites an earlier one.                                        *)
buildRelevanceMap(cs) ==
    LET key == AsSequence([i \in 1..Len(cs) |-> getCombination(cs[i])])
        lastWith(k) == CHOOSE i \in 1..Len(cs) :
                           /\ key[i] = k
                           /\ \A j \in (i + 1)..Len(cs) : key[j] # k
    IN [k \in {key[i] : i \in 1..Len(cs)} |-> getRelevance(cs[lastWith(k)])]

\* lines 251-255
BuildMap ==
    /\ pc = "buildMap"
    /\ oneWordRelevanceMap' = buildRelevanceMap(oneWordCombinations)
    /\ size' = 2
    /\ pc' = "generate"
    /\ UNCHANGED <<text, locale, functionWords, words, wordCount,
                   oneWordCombinations, generated,
                   multiWordCombinations, combinations, result>>

\* lines 257-260: the argument of calculateOccurrences
Generate ==
    /\ pc = "generate"
    /\ generated' = getWordCombinations(text, size)
    /\ pc' = "aggregate"
    /\ UNCHANGED <<text, locale, functionWords, words, wordCount,
                   oneWordCombinations, oneWordRelevanceMap, size,
                   multiWordCombinations, combinations, result>>

\* lines 257-260: the call of calculateOccurrences and the assignment
Aggregate ==
    /\ pc = "aggregate"
    /\ multiWordCombinations' =
           [multiWordCombinations EXCEPT ![size] = calculateOccurrences(generated)]
    /\ IF size < maxCombinationSize
       THEN size' = size + 1 /\ pc' = "generate"
       ELSE size' = size /\ pc' = "concat"
    /\ UNCHANGED <<text, locale, functionWords, words, wordCount,
                   oneWordCombinations, oneWordRelevanceMap, generated,
                   combinations, result>>

\* lines 262-267
Concat ==
    /\ pc = "concat"
    /\ combinations' = oneWordCombinations \o multiWordCombinations[2]
                       \o multiWordCombinations[3] \o multiWordCombinations[4]
                       \o multiWordCombinations[5]
    /\ pc' = "filterSpecial"
    /\ UNCHANGED <<text, locale, functionWords, words, wordCount,
                   oneWordCombinations, oneWordRelevanceMap, size, generated,
                   multiWordCombinations, result>>

Step(from, to, next) ==
    /\ pc = from
    /\ combinations' = next
    /\ pc' = to
    /\ UNCHANGED <<text, locale, functionWords, words, wordCount,
                   oneWordCombinations, oneWordRelevanceMap, size, generated,
                   multiWordCombinations, result>>

\* line 221
FilterSpecial ==
    Step("filterSpecial", "filterOneChar",
         filterFunctionWordsAnywhere(combinations, specialCharacters))

\* line 222
FilterOneChar ==
    Step("filterOneChar", "filterAnywhere",
         filterOneCharacterWordCombinations(combinations))

\* line 205
FilterAnywhere ==
    Step("filterAnywhere", "filterBeginningAndEnding",
         filterFunctionWordsAnywhere(combinations, functionWords.filteredAnywhere))

\* line 206
FilterBeginningAndEnding ==
    Step("filterBeginningAndEnding", "filterEnding",
         filterFunctionWordsAtBeginningAndEnding(
             combinations, functionWords.filteredAtBeginningAndEnding))

\* line 207
FilterEnding ==
    Step("filterEnding", "filterBeginning",
         filterFunctionWordsAtEnding(combinations, functionWords.filteredAtEnding))

\* line 208
FilterBeginning ==
    Step("filterBeginning", "inject",
         filterFunctionWordsAtBeginning(combinations,
                                        functionWords.filteredAtBeginning))

\* lines 271-273
Inject ==
    Step("inject", "relevant",
         [i \in 1..Len(combinations) |-> setRelevantWords(combinations[i])])

\* line 275
Relevant ==
    Step("relevant", "sort", getRelevantCombinations(combinations))

\* line 276
Sort ==
    Step("sort", "density", sortCombinations(combinations))

\* lines 278-280
Density ==
    Step("density", "take",
         IF wordCount >= wordCountLowerLimit
         THEN filterOnDensity(combinations, wordCount, densityLowerLimit,
                              densityUpperLimit)
         ELSE combinations)

\* line 282
Take ==
    /\ pc = "take"
    /\ result' = take(combinations, relevantWordLimit)
    /\ pc' = "done"
    /\ UNCHANGED <<text, locale, functionWords, words, wordCount,
                   oneWordCombinations, oneWordRelevanceMap, size, generated,
                   multiWordCombinations, combinations>>

Next ==
    \/ ResolveLanguage
    \/ GenerateWords
    \/ AggregateWords
    \/ RelevantWords
    \/ SortWords
    \/ TakeWords
    \/ BuildMap
    \/ Generate
    \/ Aggregate
    \/ Concat
    \/ FilterSpecial
    \/ FilterOneChar
    \/ FilterAnywhere
    \/ FilterBeginningAndEnding
    \/ FilterEnding
    \/ FilterBeginning
    \/ Inject
    \/ Relevant
    \/ Sort
    \/ Density
    \/ Take

Spec == Init /\ [][Next]_vars

InitLong ==
    /\ text \in LongTexts
    /\ locale = <<"e", "n", "_", "U", "S">>
    /\ Locals

SpecLong == InitLong /\ [][Next]_vars

-----------------------------------------------------------------------------
(* Properties.                                                             *)

first(c) == c.words[1]
last(c) == c.words[Len(c.words)]
wordsOf(c) == {c.words[i] : i \in 1..Len(c.words)}

(* C1: every candidate of the returned list has occurrences > 1 and a      *)
(* relevance other than 0, the relevance being the one computed with the   *)
(* relevance map injected.                                                 *)
C1_ReturnedAreRelevant ==
    pc = "done" =>
        \A i \in 1..Len(result) :
            /\ result[i].relevantWords
            /\ getOccurrences(result[i]) > 1
            /\ getRelevance(result[i]) # 0

(* A run that returned a multi-word candidate with a relevant word while a *)
(* candidate seen once was generated too.                                  *)
C1_Witness ==
    /\ pc = "done"
    /\ \E i \in 1..Len(result) :
           /\ getLength(result[i]) > 1
           /\ \E w \in wordsOf(result[i]) : w \in DOMAIN oneWordRelevanceMap
    /\ \E i \in 1..Len(multiWordCombinations[2]) :
           /\ multiWordCombinations[2][i].occurrences = 1
           /\ wordsOf(multiWordCombinations[2][i]) \subseteq {cat, twelve}

(* The lists of the language the locale resolves to.                       *)
resolved ==
    IF getLanguage(locale) \in DOMAIN functionWordLists
    THEN functionWordLists[getLanguage(locale)]
    ELSE functionWordLists[<<"e", "n">>]

(* C5: every returned candidate passes every stage of the filter pipeline: *)
(* it is no single word of at most one character, holds no special-        *)
(* character token and no filteredAnywhere word, its first word is in      *)
(* neither filteredAtBeginning nor filteredAtBeginningAndEnding and its    *)
(* last word in neither filteredAtEnding nor filteredAtBeginningAndEnding. *)
C5_ReturnedPassFilters ==
    pc = "done" =>
        \A i \in 1..Len(result) :
            /\ ~(Len(result[i].words) = 1 /\ Len(result[i].words[1]) <= 1)
            /\ wordsOf(result[i]) \cap specialCharacters = {}
            /\ wordsOf(result[i]) \cap resolved.filteredAnywhere = {}
            /\ first(result[i]) \notin resolved.filteredAtBeginning
            /\ first(result[i]) \notin resolved.filteredAtBeginningAndEnding
            /\ last(result[i]) \notin resolved.filteredAtEnding
            /\ last(result[i]) \notin resolved.filteredAtBeginningAndEnding

(* A run that returned candidates although a one-character word was among  *)
(* the relevant single words and went through the filters.                 *)
C5_Witness ==
    /\ pc = "done"
    /\ Len(result) > 0
    /\ \E i \in 1..Len(oneWordCombinations) :
           Len(oneWordCombinations[i].words[1]) <= 1

-----------------------------------------------------------------------------
(* The aggregator: input and output of one call of calculateOccurrences.   *)

indicesOf(in, ws) == {i \in 1..Len(in) : in[i].words = ws}

firstIndex(in, ws) ==
    CHOOSE i \in indicesOf(in, ws) : \A k \in indicesOf(in, ws) : i <= k

RECURSIVE sumOccurrences(_, _, _)
sumOccurrences(out, lo, hi) ==
    IF lo > hi THEN 0
    ELSE IF lo = hi THEN out[lo].occurrences
    ELSE sumOccurrences(out, lo, (lo + hi) \div 2)
         + sumOccurrences(out, (lo + hi) \div 2 + 1, hi)

AggregatedAsSpecified(in, out) ==
    /\ \A i \in 1..Len(in) :
           /\ in[i].occurrences = 0
           /\ Cardinality({j \in 1..Len(out) : out[j].words = in[i].words}) = 1
    /\ \A j \in 1..Len(out) :
           /\ indicesOf(in, out[j].words) # {}
           /\ out[j] = [in[firstIndex(in, out[j].words)] EXCEPT
                            !.occurrences = Cardinality(indicesOf(in, out[j].words))]
           /\ out[j].occurrences >= 1
    /\ sumOccurrences(out, 1, Len(out)) = Len(in)

FirstSeenOrder(in, out) ==
    \A j, k \in 1..Len(out) :
        j < k => firstIndex(in, out[j].words) < firstIndex(in, out[k].words)

(* C9: calculateOccurrences returns the candidates in first-seen order,    *)
(* also when a key is a digit-only word.                                   *)
C9_FirstSeenOrder ==
    /\ pc = "relevantWords" => FirstSeenOrder(words, oneWordCombinations)
    /\ (pc = "generate" /\ size > 2) =>
           FirstSeenOrder(generated, multiWordCombinations[size - 1])
    /\ pc = "concat" => FirstSeenOrder(generated, multiWordCombinations[size])

-----------------------------------------------------------------------------
(* The generator: the output of one call of getWordCombinations.           *)

windows(len, n) == IF len - n + 1 > 0 THEN len - n + 1 ELSE 0

RECURSIVE sumWindows(_, _, _, _)
sumWindows(t, lo, hi, n) ==
    IF lo > hi THEN 0
    ELSE IF lo = hi THEN windows(Len(t[lo]), n)
    ELSE sumWindows(t, lo, (lo + hi) \div 2, n)
         + sumWindows(t, (lo + hi) \div 2 + 1, hi, n)

GeneratedAsSpecified(out, n) ==
    /\ Len(out) = sumWindows(text, 1, Len(text), n)
    /\ \A s \in 1..Len(text) :
           \A i \in 1..windows(Len(text[s]), n) :
               /\ out[sumWindows(text, 1, s - 1, n) + i].words =
                      [k \in 1..n |-> getWords(text[s])[i + k - 1]]
               /\ out[sumWindows(text, 1, s - 1, n) + i].occurrences = 0

(* C7: for each sentence of L words getWordCombinations emits the          *)
(* max(0, L - n + 1) windows of n words, in document order, none across    *)
(* two sentences.                                                          *)
C7_WindowsPerSentence ==
    /\ pc = "aggregateWords" => GeneratedAsSpecified(words, 1)
    /\ pc = "aggregate" => GeneratedAsSpecified(generated, size)

(* Three-word windows of a text with a sentence of two windows or more and *)
(* a sentence too short for one.                                           *)
C7_Witness ==
    /\ pc = "aggregate"
    /\ size = 3
    /\ \E s \in 1..Len(text) : Len(text[s]) >= 4
    /\ \E s \in 1..Len(text) : Len(text[s]) < 3
    /\ Len(generated) > 2

-----------------------------------------------------------------------------
(* The at-beginning-and-ending pass.                                       *)

keptByBeginningAndEnding(c) ==
    /\ first(c) \notin functionWords.filteredAtBeginningAndEnding
    /\ last(c) \notin functionWords.filteredAtBeginningAndEnding

(* C8 as amended: the pass keeps, in order, exactly the candidates whose   *)
(* first word and last word are both outside filteredAtBeginningAndEnding. *)
C8_PassUsesItsOwnList ==
    [][pc = "filterBeginningAndEnding" =>
          combinations' = SelectSeq(combinations, keptByBeginningAndEnding)]_vars

(* C8 as stated: after the pass no candidate is left whose first word is   *)
(* in filteredAtBeginning or whose last word is in filteredAtEnding.       *)
C8_AsStated ==
    pc = "filterEnding" =>
        \A i \in 1..Len(combinations) :
            /\ first(combinations[i]) \notin functionWords.filteredAtBeginning
            /\ last(combinations[i]) \notin functionWords.filteredAtEnding

(* After the pass: a two-word candidate beginning with a word of the list  *)
(* and one ending with it were generated, and candidates are left.         *)
C8_Witness ==
    /\ pc = "filterEnding"
    /\ Len(combinations) > 0
    /\ \E j, k \in 1..Len(multiWordCombinations[2]) :
           /\ multiWordCombinations[2][j].words[1] \in functionWords.filteredAtBeginningAndEnding
           /\ multiWordCombinations[2][j].words[2] = cat
           /\ multiWordCombinations[2][k].words[2] \in functionWords.filteredAtBeginningAndEnding
           /\ multiWordCombinations[2][k].words[1] = cat

-----------------------------------------------------------------------------
(* Density, order and truncation of the returned list.                     *)

(* C2: the word count is the number of one-word combinations of the text;  *)
(* with 200 words or more every returned candidate has                     *)
(* 0 <= occurrences / wordCount < 0.03; with fewer the density step leaves *)
(* the list as it is.                                                      *)
C2_DensityBound ==
    [][/\ pc = "generateWords" =>
              wordCount' = sumWindows(text, 1, Len(text), 1)
       /\ (pc = "density" /\ wordCount < 200) => combinations' = combinations
       /\ (pc = "take" /\ wordCount >= 200) =>
              \A i \in 1..Len(result') :
                  /\ result'[i].occurrences >= 0
                  /\ 100 * result'[i].occurrences < 3 * wordCount]_vars

(* A text of exactly 200 words returned candidates while the word "cat",   *)
(* a relevant single word, has a density of 0.03 or more.                  *)
C2_Witness ==
    /\ pc = "done"
    /\ wordCount = 200
    /\ Len(result) > 0
    /\ \E i \in 1..Len(oneWordCombinations) :
           /\ oneWordCombinations[i].words = <<cat>>
           /\ 100 * oneWordCombinations[i].occurrences >= 3 * wordCount

measured(cs) ==
    AsSequence([i \in 1..Len(cs) |->
                   [relevance |-> getRelevance(cs[i]), length |-> Len(cs[i].words)]])

(* C3: in the returned list an earlier candidate has a relevance at least  *)
(* that of a later one and, when the two are equal, at least its length.   *)
C3_ReturnedSorted ==
    pc = "done" =>
        \A m \in {measured(result)} :
            \A i, j \in 1..Len(m) :
                i < j => /\ m[i].relevance >= m[j].relevance
                         /\ m[i].relevance = m[j].relevance =>
                                m[i].length >= m[j].length

(* A text of 200 words or more whose list was truncated and holds two      *)
(* candidates of one relevance and different lengths and two of different  *)
(* relevances.                                                             *)
C3_Witness ==
    /\ pc = "done"
    /\ wordCount >= 200
    /\ Len(combinations) > Len(result)
    /\ \E m \in {measured(result)} :
           \E i, j \in 1..Len(m) :
               /\ i < j
               /\ m[i].relevance = m[j].relevance
               /\ m[i].length > m[j].length
               /\ m[1].relevance > m[i].relevance

firstOf(t, s, n) ==
    /\ Len(t) = (IF Len(s) < n THEN Len(s) ELSE n)
    /\ \A i \in 1..Len(t) : t[i] = s[i]

(* C4: both truncations keep the first 100 candidates (all of them when    *)
(* there are fewer) of the sorted list they are applied to.                *)
C4_KeepsFirstHundred ==
    [][/\ pc = "takeWords" => firstOf(oneWordCombinations', oneWordCombinations, 100)
       /\ pc = "take" => firstOf(result', combinations, 100)]_vars

unrankedWord(w) ==
    /\ w \notin DOMAIN oneWordRelevanceMap
    /\ w \notin functionWords.all
    /\ Cardinality({i \in 1..Len(words) : words[i].words = <<w>>}) > 1

(* Both truncations cut: 100 single words were kept while a further        *)
(* relevant single word exists, and 100 of more candidates were returned.  *)
C4_Witness ==
    /\ pc = "done"
    /\ Len(result) = 100
    /\ Len(combinations) > 100
    /\ Len(oneWordCombinations) = 100
    /\ \E i \in 1..Len(words) : unrankedWord(words[i].words[1])

(* C10: every returned single-word candidate is one of the first 100 of    *)
(* the single-word list and its word is a key of the relevance map, whose  *)
(* keys are the words of that list; the map changes only when it is built, *)
(* before the longer candidates are generated.                             *)
C10_SingleWordsFromMap ==
    [][/\ pc = "take" =>
              /\ \A i \in 1..Len(result') :
                     Len(result'[i].words) = 1 =>
                         /\ result'[i].words[1] \in DOMAIN oneWordRelevanceMap
                         /\ \E j \in 1..100 :
                                /\ j <= Len(oneWordCombinations)
                                /\ oneWordCombinations[j].words = result'[i].words
              /\ DOMAIN oneWordRelevanceMap =
                     {oneWordCombinations[j].words[1] :
                          j \in 1..Len(oneWordCombinations)}
       /\ oneWordRelevanceMap' # oneWordRelevanceMap => pc = "buildMap"
       /\ oneWordCombinations' # oneWordCombinations =>
              pc \in {"aggregateWords", "relevantWords", "sortWords", "takeWords"}]_vars

(* Fewer than 100 candidates were returned, single words among them, while *)
(* a one-character word was among the 100 selected single words and a      *)
(* relevant single word was ranked beyond them.                            *)
C10_Witness ==
    /\ pc = "done"
    /\ Len(result) > 0
    /\ Len(result) < 100
    /\ Len(result[1].words) = 1
    /\ Len(oneWordCombinations) = 100
    /\ \E i \in 1..Len(oneWordCombinations) : Len(oneWordCombinations[i].words[1]) <= 1
    /\ \E i \in 1..Len(words) : unrankedWord(words[i].words[1])

====
